---------------------------- MODULE Spec2Model ----------------------------
(***************************************************************************)
(* Rooba FD Calc: the FdCalculator component (src/src/components/          *)
(* fd-calculator.tsx, lines 53-185 and 321-367) together with the          *)
(* fd-calculator-tooltip flow it calls (same file, lines 425-527).         *)
(*                                                                         *)
(* JavaScript numbers are modelled as exact rationals over arbitrary-size  *)
(* naturals (TLC's own integers are 32 bits wide, and 1.065^5 already      *)
(* needs more).  Rates and periods typed into the form are carried in      *)
(* hundredths (6.5 % is 650, 0.1 year is 10), so that the validation       *)
(* boundaries 0.1 and 100 and the tenure buckets 1 and 3 are exact.        *)
(***************************************************************************)
EXTENDS Integers, Sequences, FiniteSets, TLC

(***************************************************************************)
(* Arbitrary-size naturals: little-endian sequences of limbs in base       *)
(* Base, without leading zero limbs; the empty sequence is 0.              *)
(***************************************************************************)
Base == 100 * 100

RECURSIVE BFromInt(_)
BFromInt(i) == IF i = 0 THEN << >> ELSE << i % Base >> \o BFromInt(i \div Base)

RECURSIVE BStrip(_)
BStrip(a) ==
    IF a = << >> THEN << >>
    ELSE IF a[Len(a)] = 0 THEN BStrip(SubSeq(a, 1, Len(a) - 1))
    ELSE a

RECURSIVE BAddC(_, _, _)
BAddC(a, b, c) ==
    IF a = << >> /\ b = << >> THEN BFromInt(c)
    ELSE LET x == (IF a = << >> THEN 0 ELSE Head(a))
                  + (IF b = << >> THEN 0 ELSE Head(b)) + c
         IN  << x % Base >>
               \o BAddC(IF a = << >> THEN a ELSE Tail(a),
                        IF b = << >> THEN b ELSE Tail(b), x \div Base)

BAdd(a, b) == BAddC(a, b, 0)

\* a * d + c for a small d (d < 200000, so a limb product stays in 32 bits)
RECURSIVE BMulC(_, _, _)
BMulC(a, d, c) ==
    IF a = << >> THEN BFromInt(c)
    ELSE LET x == Head(a) * d + c
         IN  << x % Base >> \o BMulC(Tail(a), d, x \div Base)

BMulSmall(a, d) == IF d = 0 THEN << >> ELSE BMulC(a, d, 0)

BShift(a) == IF a = << >> THEN a ELSE << 0 >> \o a

\* a * b, by the limbs of b
RECURSIVE BMulBy(_, _)
BMulBy(a, b) ==
    IF b = << >> THEN << >>
    ELSE BAdd(BMulSmall(a, Head(b)), BShift(BMulBy(a, Tail(b))))

BMul(a, b) ==
    IF a = << >> \/ b = << >> THEN << >>
    ELSE IF Len(a) >= Len(b) THEN BMulBy(a, b) ELSE BMulBy(b, a)

\* -1, 0, 1 as a < b, a = b, a > b
RECURSIVE BCmpFrom(_, _, _)
BCmpFrom(a, b, i) ==
    IF i = 0 THEN 0
    ELSE IF a[i] < b[i] THEN -1
    ELSE IF a[i] > b[i] THEN 1
    ELSE BCmpFrom(a, b, i - 1)

BCmp(a, b) ==
    IF Len(a) < Len(b) THEN -1
    ELSE IF Len(a) > Len(b) THEN 1
    ELSE BCmpFrom(a, b, Len(a))

\* a - b for a >= b
RECURSIVE BSubC(_, _, _)
BSubC(a, b, c) ==
    IF a = << >> THEN << >>
    ELSE LET x == Head(a) - (IF b = << >> THEN 0 ELSE Head(b)) - c
         IN  << (x + Base) % Base >>
               \o BSubC(Tail(a), IF b = << >> THEN b ELSE Tail(b),
                        IF x < 0 THEN 1 ELSE 0)

BSub(a, b) == BStrip(BSubC(a, b, 0))

(***************************************************************************)
(* Numbers: exact signed rationals [neg, num, den], den > 0.  They are     *)
(* not reduced; two numbers over the same denominator are added and        *)
(* compared by their numerators, others by cross-multiplication.           *)
(***************************************************************************)
NInt(i) ==
    [neg |-> i < 0, num |-> BFromInt(IF i < 0 THEN 0 - i ELSE i),
     den |-> BFromInt(1)]

NIsZero(a) == a.num = << >>

NNeg(a) == [a EXCEPT !.neg = ~a.neg /\ ~NIsZero(a)]

NMul(a, b) ==
    LET n == BMul(a.num, b.num)
    IN  [neg |-> (a.neg # b.neg) /\ n # << >>, num |-> n,
         den |-> BMul(a.den, b.den)]

\* a / b for b # 0
NDiv(a, b) ==
    LET n == BMul(a.num, b.den)
    IN  [neg |-> (a.neg # b.neg) /\ n # << >>, num |-> n,
         den |-> BMul(a.den, b.num)]

NAdd(a, b) ==
    LET x == IF a.den = b.den THEN a.num ELSE BMul(a.num, b.den)
        y == IF a.den = b.den THEN b.num ELSE BMul(b.num, a.den)
        d == IF a.den = b.den THEN a.den ELSE BMul(a.den, b.den)
    IN  IF a.neg = b.neg
        THEN [neg |-> a.neg, num |-> BAdd(x, y), den |-> d]
        ELSE IF BCmp(x, y) >= 0
        THEN [neg |-> a.neg /\ BCmp(x, y) # 0, num |-> BSub(x, y), den |-> d]
        ELSE [neg |-> b.neg, num |-> BSub(y, x), den |-> d]

NSub(a, b) == NAdd(a, NNeg(b))

NEq(a, b) ==
    /\ (a.neg = b.neg \/ (NIsZero(a) /\ NIsZero(b)))
    /\ IF a.den = b.den THEN a.num = b.num
       ELSE BMul(a.num, b.den) = BMul(b.num, a.den)

\* a <= b
NLeq(a, b) ==
    LET d == NSub(b, a) IN ~d.neg

NLt(a, b) == NLeq(a, b) /\ ~NEq(a, b)

NAbs(a) == [a EXCEPT !.neg = FALSE]

\* b^e for e >= 0
RECURSIVE BPow(_, _)
BPow(b, e) == IF e = 0 THEN BFromInt(1) ELSE BMul(BPow(b, e - 1), b)

\* Math.pow(x, e) for a whole exponent e >= 0
NPow(x, e) ==
    [neg |-> x.neg /\ e % 2 = 1, num |-> BPow(x.num, e), den |-> BPow(x.den, e)]

(***************************************************************************)
(* Values.  A nullable value is a tuple: Null (null, undefined, an empty    *)
(* input) or Some(x); the value of s # Null is s[1].                       *)
(***************************************************************************)
Null == << >>
Some(x) == << x >>

\* rates and periods are held in hundredths: Scale units make one
Scale == 10 * 10

Compoundings == {"annually", "semi-annually", "quarterly", "monthly"}

\* useForm's defaultValues
DefaultValues ==
    [principal |-> Some(100000), rate |-> Some(650), period |-> Some(500),
     compounding |-> "annually"]

(***************************************************************************)
(* Bounds of the model: the number of calculations a behaviour starts,     *)
(* and the largest whole number of compounding periods n * t for which     *)
(* Math.pow is evaluated.                                                  *)
(***************************************************************************)
MaxCalls == 2
MaxExponent == 12

\* what the user leaves in the three number inputs of a form that passes
\* validation (rates and periods in hundredths)
PrincipalInputs == {Some(1000), Some(100000)}
RateInputs == {Some(r) : r \in {10, 650, 2000, 10000}}
PeriodInputs == {Some(t) : t \in {50, 100, 500}}

\* forms that fail validation: the default form with one field emptied, or set
\* just outside its range
InvalidInputs ==
    {[DefaultValues EXCEPT !.principal = p] : p \in {Null, Some(-1000)}}
      \cup {[DefaultValues EXCEPT !.rate = r] : r \in {Some(5), Some(10001)}}
      \cup {[DefaultValues EXCEPT !.period = t] : t \in {Null, Some(5)}}

\* the periods the generation step may hand to the rate tool
ToolPeriods == {10, 50, 100, 150, 300, 310, 500}

\* the tooltipMessage values a response object may carry
Advice == "Please double-check the interest rate and period you entered."
Messages == {Some(""), Some(Advice), Null}

\* how the generation step can end: it throws, it yields no output, or it
\* yields an output object
Responses ==
    {[kind |-> "throw", tooltipMessage |-> Null],
     [kind |-> "null", tooltipMessage |-> Null]}
      \cup {[kind |-> "output", tooltipMessage |-> m] : m \in Messages}

(***************************************************************************)
(* formSchema                                                              *)
(***************************************************************************)
\* z.coerce.number: Number(raw); Number("") is 0
Coerce(raw) == IF raw = Null THEN 0 ELSE raw[1]

\* mutant of PrincipalOk: nonnegative() where positive() is meant
PrincipalOk_nonNegative(p) == p >= 0

PrincipalOk(p) == p > 0
RateOk(r) == r * 10 >= Scale /\ r <= 100 * Scale
PeriodOk(t) == t * 10 >= Scale
CompoundingOk(c) == c \in Compoundings

\* the fields zodResolver reports an error for
formSchema(values) ==
    {f \in {"principal", "rate", "period", "compounding"} :
        \/ f = "principal" /\ ~PrincipalOk(Coerce(values.principal))
        \/ f = "rate" /\ ~RateOk(Coerce(values.rate))
        \/ f = "period" /\ ~PeriodOk(Coerce(values.period))
        \/ f = "compounding" /\ ~CompoundingOk(values.compounding)}

\* the values onSubmit receives: the coerced fields
Parsed(values) ==
    [principal |-> Coerce(values.principal), rate |-> Coerce(values.rate),
     period |-> Coerce(values.period), compounding |-> values.compounding]

(***************************************************************************)
(* The calculation of onSubmit                                             *)
(***************************************************************************)
PeriodsPerYear(compounding) ==
    CASE compounding = "annually" -> 1
      [] compounding = "semi-annually" -> 2
      [] compounding = "quarterly" -> 4
      [] compounding = "monthly" -> 12

\* the form's rate and period as numbers
RateNum(values) == NDiv(NInt(values.rate), NInt(Scale))
PeriodNum(values) == NDiv(NInt(values.period), NInt(Scale))

\* n * t, for the inputs on which it is whole
Exponent(values) == (PeriodsPerYear(values.compounding) * values.period) \div Scale

\* mutant of GrowthBase: the "1 +" is dropped
GrowthBase_noOne(values) ==
    NDiv(NDiv(RateNum(values), NInt(100)),
         NInt(PeriodsPerYear(values.compounding)))

\* 1 + r / n
GrowthBase(values) ==
    NAdd(NInt(1), NDiv(NDiv(RateNum(values), NInt(100)),
                       NInt(PeriodsPerYear(values.compounding))))

\* principal * Math.pow(1 + r / n, n * t)
MaturityAmount(values) ==
    NMul(NInt(values.principal), NPow(GrowthBase(values), Exponent(values)))

\* mutant of TotalInterest: the operands are swapped
TotalInterest_swapped(maturityAmount, principal) ==
    NSub(NInt(principal), maturityAmount)

\* maturityAmount - principal
TotalInterest(maturityAmount, principal) == NSub(maturityAmount, NInt(principal))

\* lines 148-161 of onSubmit
Calculation(values) ==
    [maturityAmount |-> MaturityAmount(values),
     totalInterest |-> TotalInterest(MaturityAmount(values), values.principal)]

\* The form contents a behaviour submits.  Math.pow is modelled for whole
\* exponents up to MaxExponent, so a submission that passes validation
\* is one whose n * t is whole and no larger.
Computable(values) ==
    /\ (PeriodsPerYear(values.compounding) * Coerce(values.period)) % Scale = 0
    /\ (PeriodsPerYear(values.compounding) * Coerce(values.period)) \div Scale
          <= MaxExponent

FormInputs ==
    {v \in [principal : PrincipalInputs, rate : RateInputs,
            period : PeriodInputs, compounding : Compoundings] :
        Computable(v)} \cup {DefaultValues} \cup InvalidInputs

\* Calculation, tabulated over the submitted forms (TLC builds the table
\* once instead of recomputing an entry at every step)
CalculationOf ==
    [values \in {Parsed(v) : v \in FormInputs} |-> Calculation(values)]

(***************************************************************************)
(* The fd-calculator-tooltip flow                                          *)
(***************************************************************************)
\* mutant of getPrevailingInterestRate: < where <= is meant
getPrevailingInterestRate_strict(period) ==
    IF period < 1 * Scale THEN 5
    ELSE IF period < 3 * Scale THEN 6
    ELSE 7

\* the tool's body: period in hundredths of a year, the rate in percent
getPrevailingInterestRate(period) ==
    IF period <= 1 * Scale THEN 5
    ELSE IF period <= 3 * Scale THEN 6
    ELSE 7

\* the prompt's simple calculation: fdAmount * (1 + interestRate/100 * period)
SimpleEstimate(input) ==
    NMul(NInt(input.fdAmount),
         NAdd(NInt(1), NMul(NDiv(input.interestRate, NInt(100)), input.period)))

\* the prompt's instruction for when a message is to be generated
fdTooltipPrompt(input) ==
    LET prevailing == NInt(getPrevailingInterestRate(input.periodHundredths))
    IN  \/ NLt(NInt(2), NAbs(NSub(input.interestRate, prevailing)))
        \/ ~NEq(input.maturityAmount, SimpleEstimate(input))

\* the argument onSubmit passes to getFdTooltip
TooltipInput(values, maturityAmount) ==
    [fdAmount |-> values.principal, interestRate |-> RateNum(values),
     period |-> PeriodNum(values), periodHundredths |-> values.period,
     maturityAmount |-> maturityAmount]

\* fdTooltipFlow returns the prompt's output as it is (output! checks
\* nothing at run time) and lets a failure of the prompt through
fdTooltipFlow(response) == response

getFdTooltip(response) == fdTooltipFlow(response)

(***************************************************************************)
(* The FdCalculator component                                              *)
(***************************************************************************)
VARIABLES
    form,           \* the contents of the four form fields
    formErrors,     \* the fields shown with a validation message
    result,         \* useState<CalculationResult | null>
    isCalculating,  \* useState(false)
    run,            \* the latest onSubmit invocation: Null, or its locals and
                    \* position ("awaiting", "settled", "done")
    toolLog,        \* the latest getPrevailingInterestRate call of the
                    \* generation step in progress, Null when there is none
    genCalls,       \* how many times getFdTooltip has been called
    uncaught        \* an error has left onSubmit

vars == << form, formErrors, result, isCalculating, run, toolLog, genCalls,
           uncaught >>

Init ==
    /\ form = DefaultValues
    /\ formErrors = {}
    /\ result = Null
    /\ isCalculating = FALSE
    /\ run = Null
    /\ toolLog = Null
    /\ genCalls = 0
    /\ uncaught = FALSE

\* mutant of Truthy: a test against null only
Truthy_notNull(message) == message # Null

\* a JavaScript truthiness test of a tooltipMessage
Truthy(message) == message # Null /\ message[1] # ""

\* mutant of TryBlock: a failed call leaves a fallback message
TryBlock_fallback(response) ==
    IF response.kind = "throw" \/ response.kind = "null"
    THEN [threw |-> TRUE, tooltipMessage |-> Some(Advice)]
    ELSE [threw |-> FALSE,
          tooltipMessage |-> IF response.tooltipMessage # Null
                                 /\ response.tooltipMessage[1] # ""
                             THEN response.tooltipMessage ELSE Null]

\* try { await getFdTooltip(...); if (tooltipResponse.tooltipMessage) ... }:
\* reading a property of null throws
TryBlock(response) ==
    IF response.kind = "throw" \/ response.kind = "null"
    THEN [threw |-> TRUE, tooltipMessage |-> Null]
    ELSE [threw |-> FALSE,
          tooltipMessage |-> IF Truthy(response.tooltipMessage)
                             THEN response.tooltipMessage ELSE Null]

\* mutant of Rethrown: the catch block throws the error on
Rethrown_all(outcome) == outcome.threw

\* catch (error) { console.error(...) } rethrows nothing
Rethrown(outcome) == FALSE

\* mutant of onSubmit: the numeric result is stored before the await
onSubmit_eager(values) ==
    LET maturityAmount == CalculationOf[values].maturityAmount
        totalInterest == CalculationOf[values].totalInterest
    IN  /\ isCalculating' = TRUE
        /\ result' = Some([principal |-> NInt(values.principal),
                           maturityAmount |-> maturityAmount,
                           totalInterest |-> totalInterest,
                           tooltipMessage |-> Null])
        /\ run' = Some([pc |-> "awaiting", values |-> values,
                        maturityAmount |-> maturityAmount,
                        totalInterest |-> totalInterest,
                        input |-> TooltipInput(values, maturityAmount),
                        calls |-> 1, response |-> Null])
        /\ genCalls' = genCalls + 1
        /\ toolLog' = Null
        /\ UNCHANGED uncaught

\* mutant of onSubmit: getFdTooltip is called only when the prompt's rule
\* asks for a message, and the result is stored at once when it does not
onSubmit_gated(values) ==
    LET maturityAmount == CalculationOf[values].maturityAmount
        totalInterest == CalculationOf[values].totalInterest
        input == TooltipInput(values, maturityAmount)
        fires == fdTooltipPrompt(input)
    IN  /\ isCalculating' = fires
        /\ result' = IF fires THEN Null
                     ELSE Some([principal |-> NInt(values.principal),
                                maturityAmount |-> maturityAmount,
                                totalInterest |-> totalInterest,
                                tooltipMessage |-> Null])
        /\ run' = Some([pc |-> IF fires THEN "awaiting" ELSE "done",
                        values |-> values,
                        maturityAmount |-> maturityAmount,
                        totalInterest |-> totalInterest,
                        input |-> input,
                        calls |-> IF fires THEN 1 ELSE 0,
                        response |-> Null])
        /\ genCalls' = IF fires THEN genCalls + 1 ELSE genCalls
        /\ toolLog' = Null
        /\ UNCHANGED uncaught

\* onSubmit up to its await: the two state updates, the calculation and the
\* call of getFdTooltip
onSubmit(values) ==
    LET maturityAmount == CalculationOf[values].maturityAmount
        totalInterest == CalculationOf[values].totalInterest
    IN  /\ isCalculating' = TRUE
        /\ result' = Null
        /\ run' = Some([pc |-> "awaiting", values |-> values,
                        maturityAmount |-> maturityAmount,
                        totalInterest |-> totalInterest,
                        input |-> TooltipInput(values, maturityAmount),
                        calls |-> 1, response |-> Null])
        /\ genCalls' = genCalls + 1
        /\ toolLog' = Null
        /\ UNCHANGED uncaught

\* handleSubmit with a Calculate button that is never disabled
handleSubmit_ungated(v) ==
    /\ formSchema(v) = {} => genCalls < MaxCalls
    /\ form' = v
    /\ formErrors' = formSchema(v)
    /\ IF formSchema(v) = {}
       THEN onSubmit(Parsed(v))
       ELSE UNCHANGED << result, isCalculating, run, toolLog, genCalls, uncaught >>

\* the user leaves v in the form and presses Calculate, which is disabled
\* while isCalculating: form.handleSubmit validates and then calls onSubmit
handleSubmit(v) ==
    /\ ~isCalculating
    /\ formSchema(v) = {} => genCalls < MaxCalls
    /\ form' = v
    /\ formErrors' = formSchema(v)
    /\ IF formSchema(v) = {}
       THEN onSubmit(Parsed(v))
       ELSE UNCHANGED << result, isCalculating, run, toolLog, genCalls, uncaught >>

\* the generation step looks up a prevailing rate
ToolCall(period) ==
    /\ run # Null /\ run[1].pc = "awaiting"
    /\ toolLog' = Some([period |-> period,
                        rate |-> getPrevailingInterestRate(period)])
    /\ UNCHANGED << form, formErrors, result, isCalculating, run, genCalls,
                    uncaught >>

\* the call of getFdTooltip settles
Settle(response) ==
    /\ run # Null /\ run[1].pc = "awaiting"
    /\ run' = Some([run[1] EXCEPT !.pc = "settled",
                                  !.response = Some(getFdTooltip(response))])
    /\ toolLog' = Null
    /\ UNCHANGED << form, formErrors, result, isCalculating, genCalls, uncaught >>

\* onSubmit from its await on
onSubmitResume ==
    /\ run # Null /\ run[1].pc = "settled"
    /\ run' = Some([run[1] EXCEPT !.pc = "done"])
    /\ LET outcome == TryBlock(run[1].response[1])
       IN  IF outcome.threw /\ Rethrown(outcome)
           THEN /\ uncaught' = TRUE
                /\ UNCHANGED << result, isCalculating >>
           ELSE /\ result' = Some([principal |-> NInt(run[1].values.principal),
                                   maturityAmount |-> run[1].maturityAmount,
                                   totalInterest |-> run[1].totalInterest,
                                   tooltipMessage |-> outcome.tooltipMessage])
                /\ isCalculating' = FALSE
                /\ UNCHANGED uncaught
    /\ UNCHANGED << form, formErrors, toolLog, genCalls >>

handleReset ==
    /\ form' = DefaultValues
    /\ formErrors' = {}
    /\ result' = Null
    /\ UNCHANGED << isCalculating, run, toolLog, genCalls, uncaught >>

Next ==
    \/ \E v \in FormInputs : handleSubmit(v)
    \/ \E period \in ToolPeriods : ToolCall(period)
    \/ \E response \in Responses : Settle(response)
    \/ onSubmitResume
    \/ handleReset

Spec == Init /\ [][Next]_vars

\* the event loop runs the continuation of a settled await
FairSpec == Spec /\ WF_vars(onSubmitResume)

(***************************************************************************)
(* Properties                                                              *)
(***************************************************************************)
Awaiting == run # Null /\ run[1].pc = "awaiting"
Settled == run # Null /\ run[1].pc = "settled"
Done == run # Null /\ run[1].pc = "done"

\* the generation call failed: it threw, gave no output, or gave an output
\* without a tooltipMessage
Failed(response) ==
    response.kind \in {"throw", "null"} \/ response.tooltipMessage = Null

\* the numeric result of the latest onSubmit invocation, with no advisory
BareResult ==
    [principal |-> NInt(run[1].values.principal),
     maturityAmount |-> run[1].maturityAmount,
     totalInterest |-> run[1].totalInterest,
     tooltipMessage |-> Null]

\* C1: when the call of getFdTooltip fails (it throws, yields null or yields
\* a malformed object), the step that resumes onSubmit stores the computed
\* maturityAmount and totalInterest with tooltipMessage = null and sets
\* isCalculating to false; no error ever leaves onSubmit.
C1_FailureAbsorbed ==
    /\ [](~uncaught)
    /\ [][(Settled /\ Failed(run[1].response[1]) /\ run' # run)
            => (result' = Some(BareResult) /\ isCalculating' = FALSE)]_vars

C1_Witness ==
    /\ Done /\ run[1].response[1].kind = "throw"
    /\ result = Some(BareResult) /\ ~isCalculating /\ ~uncaught

C5_EventuallyDisplayed ==
    Awaiting ~> (result # Null /\ ~isCalculating)

\* C6: the reference rate is a function of the tenure alone: 5 up to one
\* year, 6 above one and up to three years, 7 above three years.
C6_ReferenceRateBuckets ==
    toolLog # Null =>
        LET period == toolLog[1].period
            rate == toolLog[1].rate
        IN  /\ period <= 100 => rate = 5
            /\ (100 < period /\ period <= 300) => rate = 6
            /\ 300 < period => rate = 7
            /\ rate = CASE period = 50 -> 5 [] period = 100 -> 5
                        [] period = 150 -> 6 [] period = 300 -> 6
                        [] period = 310 -> 7 [] OTHER -> rate

C6_Witness ==
    toolLog # Null /\ toolLog[1].period = 300 /\ toolLog[1].rate = 6

\* C7: every stored result has totalInterest = maturityAmount - principal
\* with the submitted principal echoed, and its figures are those computed
\* before the advisory call, whatever that call returned.
C7_InterestIsDifference ==
    result # Null =>
        /\ NEq(NAdd(result[1].totalInterest, result[1].principal),
               result[1].maturityAmount)
        /\ result[1].principal = NInt(run[1].values.principal)
        /\ result[1].maturityAmount = run[1].maturityAmount
        /\ result[1].totalInterest = run[1].totalInterest

C7_Witness ==
    /\ result # Null /\ result[1].tooltipMessage # Null
    /\ ~NIsZero(result[1].totalInterest)
    /\ result[1].principal = NInt(1000)

\* n for a compounding label, as the claim gives it
C8_Periods(compounding) ==
    IF compounding = "annually" THEN 1
    ELSE IF compounding = "semi-annually" THEN 2
    ELSE IF compounding = "quarterly" THEN 4
    ELSE 12

RECURSIVE C8_Power(_, _)
C8_Power(b, e) == IF e = 0 THEN BFromInt(1) ELSE BMulSmall(C8_Power(b, e - 1), b)

\* C8: for valid inputs the computed maturityAmount is
\* principal * (1 + (rate/100)/n)^(n*tenure), at least the principal, and
\* totalInterest is not negative.
C8_MaturityAtLeastPrincipal ==
    run # Null =>
        LET values == run[1].values
            n == C8_Periods(values.compounding)
            e == (n * values.period) \div Scale
        IN  /\ NEq(run[1].maturityAmount,
                   [neg |-> FALSE,
                    num |-> BMulSmall(C8_Power(100 * Scale * n + values.rate, e),
                                      values.principal),
                    den |-> C8_Power(100 * Scale * n, e)])
            /\ NLeq(NInt(values.principal), run[1].maturityAmount)
            /\ ~run[1].totalInterest.neg

C8_Witness ==
    /\ Done /\ run[1].values.compounding = "monthly" /\ run[1].values.rate = 10
    /\ NLt(NInt(run[1].values.principal), run[1].maturityAmount)

\* C9: a stored advisory is either null or a non-empty string; an empty
\* message from the generation service is stored as null.
C9_NoEmptyAdvisory ==
    result # Null =>
        /\ result[1].tooltipMessage # Some("")
        /\ run[1].response[1].tooltipMessage = Some("")
              => result[1].tooltipMessage = Null

C9_Witness ==
    /\ result # Null /\ run[1].response[1].kind = "output"
    /\ run[1].response[1].tooltipMessage = Some("")
    /\ result[1].tooltipMessage = Null

\* the validation rules, as the claim gives them
C10_Valid(values) ==
    /\ values.principal > 0
    /\ 10 <= values.rate /\ values.rate <= 10000
    /\ 10 <= values.period
    /\ values.compounding \in {"annually", "semi-annually", "quarterly", "monthly"}

\* C10: onSubmit runs, and getFdTooltip is called, only with inputs that
\* pass validation; a submit that fails validation leaves result and
\* isCalculating unchanged and makes no generation call.
C10_OnlyValidatedInputs ==
    /\ [](run # Null => C10_Valid(run[1].values))
    /\ [](genCalls > 0 => run # Null)
    /\ [][~C10_Valid(Parsed(form'))
            => (result' = result /\ isCalculating' = isCalculating
                /\ genCalls' = genCalls /\ run' = run)]_vars

C10_Witness ==
    /\ formErrors = {"rate"} /\ ~C10_Valid(Parsed(form))
    /\ result # Null /\ genCalls = 1

\* a calculation is in flight: onSubmit has started and has not yet stored
\* its result
InFlight == Awaiting \/ Settled

\* C11: a calculation abandoned by Reset is discarded. While a calculation
\* is in flight Calculate is disabled, so the form can differ from the
\* submitted values only because handleReset has run since the submit; the
\* completion of such a calculation must then leave result = null.
C11_ResetDiscards ==
    [][(InFlight /\ Parsed(form) # run[1].values) => result' = Null]_vars

\* C12: at most one calculation is in flight and it hides the previous
\* outcome: a new onSubmit starts only when isCalculating is false and no
\* calculation is in flight; while one is in flight isCalculating is true
\* and result is null; a displayed result is the figures and the advisory
\* of the latest onSubmit, which has completed.
C12_SingleFlight ==
    /\ [](InFlight => (isCalculating /\ result = Null))
    /\ [](result # Null =>
            /\ Done
            /\ result[1] = [BareResult EXCEPT !.tooltipMessage =
                               TryBlock(run[1].response[1]).tooltipMessage])
    /\ [][(run' # run /\ run' # Null /\ run'[1].pc = "awaiting")
            => (~isCalculating /\ (run = Null \/ Done))]_vars

C12_Witness ==
    /\ Awaiting /\ genCalls = 2 /\ isCalculating /\ result = Null
    /\ run[1].response = Null

=============================================================================
